---- MODULE Spec2Model ----
(***************************************************************************)
(* The three migration scripts fix-repositories.py, fix-usecases.py and    *)
(* fix-usecases-phase2.py: each reads every file of a directory listing,   *)
(* pipes its text through a fixed sequence of re.sub rules and writes the  *)
(* file back when the text changed.                                        *)
(*                                                                         *)
(* A text is a sequence of lexemes.  A lexeme is a fragment of source text *)
(* that never begins or ends with white space; white space is always a     *)
(* lexeme of its own (the set Space).  The concatenation of the lexemes is *)
(* the file's text.  A regular expression is a sequence of elements, each  *)
(* a class of lexemes with a quantifier "1", "+" or "*".                   *)
(***************************************************************************)
EXTENDS Integers, Sequences, FiniteSets, TLC

(***************************************************************************)
(* Bounds of the model.                                                    *)
(***************************************************************************)
MaxFrags == 2       \* a single-file tree holds at most MaxFrags code fragments
NFiles == 2         \* number of files of a multi-file tree

(***************************************************************************)
(* Lexemes.                                                                *)
(***************************************************************************)
Space == {" ", "\n", "\n  ", "\n    "}

DateTimeVoImport == "import { DateTime } from '@barbershop/domain/value-objects/datetime.vo'"
LuxonImport == "import { DateTime } from 'luxon'"
SpecialtyVoImport == "import { Specialty } from '@barbershop/domain/value-objects/specialty.vo'"

ConstAssign == {"const entity =", "const result ="}
ToDomainCall == {"PrismaMapper.toDomain(raw)"}
FromJSDateCall == {"DateTime.fromJSDate(dto.start)", "DateTime.fromJSDate(date)"}
PaymentInfoCreate == {"PaymentInfo.create({ amount })",
                      "PaymentInfo.create({ method: PaymentMethod.CASH, amount })"}

\* the lexemes whose text contains the substring "PaymentInfo" / "PaymentMethod"
ContainsPaymentInfo ==
    PaymentInfoCreate \cup {"import { PaymentInfo }", "import { PaymentInfo, PaymentMethod }",
                            "PaymentInfo.pending(service.price)"}
ContainsPaymentMethod ==
    {"PaymentInfo.create({ method: PaymentMethod.CASH, amount })",
     "import { PaymentInfo, PaymentMethod }", "PaymentMethod.CASH"}

(***************************************************************************)
(* re.sub over lexeme sequences.                                           *)
(***************************************************************************)
One(t) == [c |-> {t}, q |-> "1"]
OneOf(cls) == [c |-> cls, q |-> "1"]
Plus(cls) == [c |-> cls, q |-> "+"]
Star(cls) == [c |-> cls, q |-> "*"]
Lit(t) == [k |-> "lit", t |-> t, g |-> 0]
Grp(n) == [k |-> "grp", t |-> "", g |-> n]

\* the number of consecutive lexemes of class cls in s from position i on
RECURSIVE RunLen(_, _, _)
RunLen(cls, s, i) ==
    IF i <= Len(s) /\ s[i] \in cls THEN 1 + RunLen(cls, s, i + 1) ELSE 0

\* the match of the elements k.. of pat at position i of s: the positions
\* where each element starts, then the position after the match; <<>> when
\* there is no match.  A quantified class is always followed by an element
\* of a disjoint class (or by the end of the pattern), so the greedy choice
\* is the only one the backtracking matcher can succeed with.
RECURSIVE MatchAt(_, _, _, _)
MatchAt(pat, s, i, k) ==
    IF k > Len(pat) THEN <<i>>
    ELSE LET e == pat[k]
             n == RunLen(e.c, s, i)
             take == IF e.q = "1" THEN (IF n >= 1 THEN 1 ELSE 0) ELSE n
             ok == e.q = "*" \/ take >= 1
             rest == IF ok THEN MatchAt(pat, s, i + take, k + 1) ELSE <<>>
         IN  IF rest = <<>> THEN <<>> ELSE <<i>> \o rest

\* the replacement template rep expanded for the match with bounds b
RECURSIVE Expand(_, _, _, _)
Expand(rep, s, b, j) ==
    IF j > Len(rep) THEN <<>>
    ELSE (IF rep[j].k = "lit" THEN <<rep[j].t>>
          ELSE SubSeq(s, b[rep[j].g], b[rep[j].g + 1] - 1))
         \o Expand(rep, s, b, j + 1)

\* re.sub(pattern, replacement, s): the non-overlapping matches from left
\* to right, each replaced by its expanded replacement
RECURSIVE SubFrom(_, _, _)
SubFrom(rule, s, i) ==
    IF i > Len(s) THEN <<>>
    ELSE LET b == MatchAt(rule.pat, s, i, 1)
         IN  IF b # <<>>
             THEN Expand(rule.rep, s, b, 1) \o SubFrom(rule, s, b[Len(b)])
             ELSE <<s[i]>> \o SubFrom(rule, s, i + 1)

re_sub(rule, s) == SubFrom(rule, s, 1)

\* whether the pattern of rule matches somewhere in s
Matches(rule, s) == \E i \in 1..Len(s) : MatchAt(rule.pat, s, i, 1) # <<>>

\* the replacement texts re.sub produces for the matches of rule in s
RECURSIVE ReplacementsFrom(_, _, _)
ReplacementsFrom(rule, s, i) ==
    IF i > Len(s) THEN <<>>
    ELSE LET b == MatchAt(rule.pat, s, i, 1)
         IN  IF b # <<>>
             THEN <<Expand(rule.rep, s, b, 1)>> \o ReplacementsFrom(rule, s, b[Len(b)])
             ELSE ReplacementsFrom(rule, s, i + 1)

Rule(name, pat, rep) == [name |-> name, pat |-> pat, rep |-> rep, guarded |-> FALSE]
Guarded(name, pat, rep) == [name |-> name, pat |-> pat, rep |-> rep, guarded |-> TRUE]

(***************************************************************************)
(* fix-repositories.py: the six substitutions of fix_repository_file.      *)
(***************************************************************************)
repo_datetime_import ==
    Rule("repo_datetime_import", <<One(DateTimeVoImport)>>, <<Lit(LuxonImport)>>)

repo_specialty_import ==
    Rule("repo_specialty_import", <<One(SpecialtyVoImport)>>, <<>>)

\* (\s+)(const \w+ = )(\w+Mapper\.toDomain\([^)]+\)) -> \1\2\3\n\1if (\2.isFailure) return null
repo_todomain_assign ==
    Rule("repo_todomain_assign",
         <<Plus(Space), OneOf(ConstAssign), One(" "), OneOf(ToDomainCall)>>,
         <<Grp(1), Grp(2), Grp(3), Grp(4), Lit("\n"), Grp(1), Lit("if ("),
           Grp(2), Grp(3), Lit(".isFailure) return null")>>)

repo_version ==
    Rule("repo_version", <<One("entity.version")>>,
         <<Lit("0 // version managed by repository")>>)

\* return (\w+Mapper\.toDomain\([^)]+\)) -> const result = \1\n    return result.isSuccess ? ...
repo_todomain_return ==
    Rule("repo_todomain_return",
         <<One("return"), One(" "), OneOf(ToDomainCall)>>,
         <<Lit("const result ="), Lit(" "), Grp(3), Lit("\n    "),
           Lit("return result.isSuccess ? result.value : null")>>)

repo_todate == Rule("repo_todate", <<One(".toDate()")>>, <<Lit(".toJSDate()")>>)

fix_repository_file ==
    <<repo_datetime_import, repo_specialty_import, repo_todomain_assign,
      repo_version, repo_todomain_return, repo_todate>>

(***************************************************************************)
(* fix-usecases.py                                                         *)
(***************************************************************************)
fix_datetime_imports ==
    <<Rule("uc_datetime_import", <<One(DateTimeVoImport)>>, <<Lit(LuxonImport)>>)>>

\* const xIdOrError = XId.create(..) if (xIdOrError.isFailure) {..} const xId = xIdOrError.getValue()
IdRule(name, x, X) ==
    Rule(name,
         <<One("const " \o x \o "IdOrError = " \o X \o "Id.create(id)"), Star(Space),
           One("if (" \o x \o "IdOrError.isFailure) { return Result.fail(..) }"), Star(Space),
           One("const " \o x \o "Id = " \o x \o "IdOrError"), One(".getValue()")>>,
         <<Lit("const " \o x \o "Id = " \o X \o "Id.create(id)")>>)

fix_id_vo_usage ==
    <<IdRule("uc_appointment_id", "appointment", "Appointment"),
      IdRule("uc_barber_id", "barber", "Barber"),
      IdRule("uc_client_id", "client", "Client"),
      IdRule("uc_service_id", "service", "Service")>>

fix_entity_apis ==
    <<Rule("uc_barber_isactive", <<One("barber.isActive")>>, <<Lit("barber.status.isActive()")>>),
      Rule("uc_client_isactive", <<One("client.isActive")>>, <<Lit("client.status.isActive()")>>),
      Rule("uc_appointment_status_value", <<One("appointment.status"), One(".value")>>,
           <<Lit("appointment.status")>>),
      Rule("uc_apt_status_value", <<One("apt.status"), One(".value")>>, <<Lit("apt.status")>>)>>

fix_datetime_methods ==
    <<Rule("uc_todate", <<One(".toDate()")>>, <<Lit(".toJSDate()")>>),
      Rule("uc_datetime_create", <<One("DateTime.create(date)")>>,
           <<Lit("DateTime.fromJSDate(date)")>>)>>

fix_timeslot_create ==
    <<Rule("uc_timeslot_shorthand", <<One("TimeSlot.create({ startTime, endTime })")>>,
           <<Lit("TimeSlot.create(startTime, endTime)")>>),
      Rule("uc_timeslot_named", <<One("TimeSlot.create({ startTime: start, endTime: end })")>>,
           <<Lit("TimeSlot.create(start, end )")>>)>>

fix_result_getvalue ==
    <<Rule("uc_getvalue", <<One(".getValue()")>>, <<Lit(".value")>>)>>

(***************************************************************************)
(* fix-usecases-phase2.py                                                  *)
(***************************************************************************)
fix_datetime_validation ==
    <<Rule("p2_datetime_validation",
           <<One("const startOrError ="), One(" "), OneOf(FromJSDateCall), Star(Space),
             One("if (startOrError.isFailure) { return Result.fail(..) }"), Star(Space),
             One("const start ="), One(" "), One("startOrError"), One(".value")>>,
           <<Lit("const start ="), Lit(" "), Grp(3)>>),
      \* lambda m: m.group(0).replace('.value', '')
      Rule("p2_datetime_value", <<OneOf(FromJSDateCall), One(".value")>>, <<Grp(1)>>)>>

p2_specialties_some ==
    Rule("p2_specialties_some",
         <<One("barber.specialties.some(specialty => specialty.value === skill)")>>,
         <<Lit("barber.specialties.specialties.includes(skill)")>>)

\* lambda m: m.group(0)
p2_required_skills_every ==
    Rule("p2_required_skills_every",
         <<One("service.requiredSkills.every(skill =>"), Star(Space),
           One("barber.specialties.specialties.includes(skill)"), One(")")>>,
         <<Grp(1), Grp(2), Grp(3), Grp(4)>>)

\* the two substitutions in the opposite order
fix_barber_specialties_swapped == <<p2_required_skills_every, p2_specialties_some>>

fix_barber_specialties == <<p2_specialties_some, p2_required_skills_every>>

fix_barber_is_available_at ==
    <<Rule("p2_is_available_at", <<One("barber.isAvailableAt(slot)")>>,
           <<Lit("barber.isAvailable()")>>)>>

p2_payment_create ==
    Rule("p2_payment_create", <<OneOf(PaymentInfoCreate)>>,
         <<Lit("PaymentInfo.pending(service.price)")>>)

p2_payment_import ==
    Guarded("p2_payment_import", <<One("import { PaymentInfo }")>>,
            <<Lit("import { PaymentInfo, PaymentMethod }")>>)

fix_payment_info_create == <<p2_payment_create, p2_payment_import>>

fix_barber_client_metrics ==
    <<Rule("p2_barber_metrics",
           <<Star(Space), One("// 5. Update barber metrics"), Star(Space),
             One("barber.recordCompletedAppointment()"), Star(Space)>>,
           <<Lit("\n    "), Lit("// Note: Barber metrics are updated through domain events"),
             Lit("\n")>>),
      Rule("p2_client_metrics", <<One("client.recordCompletedAppointment()")>>,
           <<Lit("// TODO: client.recordAppointmentCompleted(service.price, new Date())")>>)>>

fix_optional_string_args ==
    <<Rule("p2_cancel_reason", <<One(".cancel(dto.reason)")>>,
           <<Lit(".cancel(dto.reason || 'No reason provided')")>>),
      Rule("p2_complete_notes", <<One(".complete(dto.notes)")>>,
           <<Lit(".complete(dto.notes)")>>)>>

fix_appointment_add_notes ==
    <<Rule("p2_add_notes",
           <<Star(Space), One("// Add optional reason as notes if provided"), Star(Space),
             One("if (dto.reason) { appointment.addNotes(..) }")>>,
           <<Lit("\n    "),
             Lit("// Note: Reason handling would need to be added to Appointment entity")>>)>>

fix_barber_schedule_iteration == <<>>

(***************************************************************************)
(* The scripts and their rule pipelines.                                   *)
(***************************************************************************)
Scripts == {"fix-repositories", "fix-usecases", "fix-usecases-phase2"}

\* the fix functions a script applies to a file's content, in the order of
\* the calls; fix-repositories.py applies its substitutions inline
Phases(s) ==
    CASE s = "fix-repositories" -> <<fix_repository_file>>
      [] s = "fix-usecases" ->
            <<fix_datetime_imports, fix_id_vo_usage, fix_entity_apis,
              fix_datetime_methods, fix_timeslot_create, fix_result_getvalue>>
      [] s = "fix-usecases-phase2" ->
            <<fix_datetime_validation, fix_barber_specialties, fix_barber_is_available_at,
              fix_payment_info_create, fix_barber_client_metrics, fix_optional_string_args,
              fix_appointment_add_notes, fix_barber_schedule_iteration>>

\* the substitutions of a script in the order in which a file's content
\* goes through them
RECURSIVE Flatten(_)
Flatten(ps) == IF ps = <<>> THEN <<>> ELSE Head(ps) \o Flatten(Tail(ps))

Rules(s) == Flatten(Phases(s))

Mentions(text, cls) == \E i \in 1..Len(text) : text[i] \in cls

\* if "PaymentInfo" in content and "PaymentMethod" not in content
GuardHolds(rule, text) ==
    rule.guarded => (Mentions(text, ContainsPaymentInfo) /\ ~Mentions(text, ContainsPaymentMethod))

\* a guard evaluated on the text read from the file
GuardText_original(orig, cur) == orig

\* the text a guard is evaluated on: the function's content variable, which
\* holds the text as rewritten so far (orig is the text read from the file)
GuardText(orig, cur) == cur

apply_rule(rule, orig, cur) ==
    IF GuardHolds(rule, GuardText(orig, cur)) THEN re_sub(rule, cur) ELSE cur

\* a comparison that always sees a change
Changed_always(new, old) == TRUE

\* if content != original
Changed(new, old) == new # old

\* sorted(files)
RECURSIVE Insert(_, _)
Insert(x, s) ==
    IF s = <<>> THEN <<x>>
    ELSE IF x <= Head(s) THEN <<x>> \o s ELSE <<Head(s)>> \o Insert(x, Tail(s))

RECURSIVE sorted(_)
sorted(s) == IF s = <<>> THEN <<>> ELSE Insert(Head(s), sorted(Tail(s)))

\* the sequence the for loop of main iterates over
LoopOrder(s, listing) == IF s = "fix-repositories" THEN listing ELSE sorted(listing)

\* except Exception around the body of process_file
CatchesExceptions(s) == s # "fix-repositories"

\* the orders in which glob can list the files of the tree d
Listings(d) ==
    {l \in [1..Len(d) -> 1..Len(d)] : \A i, j \in 1..Len(d) : l[i] = l[j] => i = j}

(***************************************************************************)
(* The file trees the scripts are run on.                                  *)
(***************************************************************************)
Fragments(s) ==
    CASE s = "fix-repositories" ->
            {<<DateTimeVoImport>>, <<SpecialtyVoImport>>, <<"\n  ">>,
             <<"\n  ", "const entity =", " ", "PrismaMapper.toDomain(raw)">>,
             <<"const entity =", " ", "PrismaMapper.toDomain(raw)">>,
             <<"\n  ", "return", " ", "PrismaMapper.toDomain(raw)">>,
             <<" ", "entity.version">>, <<".toDate()">>, <<"export class Repo {}">>}
      [] s = "fix-usecases" ->
            {<<DateTimeVoImport>>,
             <<"const appointmentIdOrError = AppointmentId.create(id)", "\n",
               "if (appointmentIdOrError.isFailure) { return Result.fail(..) }", "\n",
               "const appointmentId = appointmentIdOrError", ".getValue()">>,
             <<"const barberIdOrError = BarberId.create(id)", " ",
               "if (barberIdOrError.isFailure) { return Result.fail(..) }", " ",
               "const barberId = barberIdOrError", ".getValue()">>,
             <<"barber.isActive">>, <<"client.isActive">>,
             <<"appointment.status">>, <<"apt.status">>, <<".value">>,
             <<".getValue()">>, <<".toDate()">>, <<"DateTime.create(date)">>,
             <<"TimeSlot.create({ startTime, endTime })">>,
             <<"TimeSlot.create({ startTime: start, endTime: end })">>,
             <<"export class UseCase {}">>}
      [] s = "fix-usecases-phase2" ->
            {<<"const startOrError =", " ", "DateTime.fromJSDate(dto.start)", "\n",
               "if (startOrError.isFailure) { return Result.fail(..) }", "\n",
               "const start =", " ", "startOrError", ".value">>,
             <<"DateTime.fromJSDate(date)", ".value">>,
             <<"barber.specialties.some(specialty => specialty.value === skill)">>,
             <<"service.requiredSkills.every(skill =>", " ",
               "barber.specialties.some(specialty => specialty.value === skill)", ")">>,
             <<"barber.isAvailableAt(slot)">>,
             <<"import { PaymentInfo }", "\n">>,
             <<"PaymentInfo.create({ amount })">>,
             <<"PaymentInfo.create({ method: PaymentMethod.CASH, amount })">>,
             <<"PaymentMethod.CASH">>,
             <<"\n    ", "// 5. Update barber metrics", "\n    ",
               "barber.recordCompletedAppointment()", "\n">>,
             <<"client.recordCompletedAppointment()">>,
             <<".cancel(dto.reason)">>, <<".complete(dto.notes)">>,
             <<"\n    ", "// Add optional reason as notes if provided", "\n    ",
               "if (dto.reason) { appointment.addNotes(..) }">>,
             <<"export class UseCase {}">>}

\* the texts made of at most n fragments
RECURSIVE Texts(_, _)
Texts(s, n) ==
    IF n = 0 THEN {<<>>}
    ELSE Texts(s, n - 1) \cup {t \o f : t \in Texts(s, n - 1), f \in Fragments(s)}

\* the file contents of the multi-file trees
Samples(s) ==
    CASE s = "fix-repositories" ->
            {<<"export class Repo {}">>, <<"x", ".toDate()">>,
             <<"\n  ", "const entity =", " ", "PrismaMapper.toDomain(raw)">>}
      [] s = "fix-usecases" ->
            {<<"export class UseCase {}">>, <<"x", ".toDate()">>,
             <<"appointment.status", ".getValue()">>}
      [] s = "fix-usecases-phase2" ->
            {<<"export class UseCase {}">>, <<"barber.isAvailableAt(slot)">>,
             <<".complete(dto.notes)">>}

(***************************************************************************)
(* State.                                                                  *)
(***************************************************************************)
VARIABLES
    script,       \* the script that is run
    rootExists,   \* whether the script's root directory exists
    disk,         \* the files under the root: path (1..n, in lexicographic order) -> text
    run,          \* the current invocation of the script: "first" or "second"
    pc,           \* "main", "loop", "fix", "compare" or "done"
    outcome,      \* "running", "error", "aborted" or "completed"
    order,        \* the sequence of paths the for loop iterates over
    nfiles,       \* len(files)
    idx,          \* position of the for loop in order
    fixed_count,  \* fixed_count / corrected
    original,     \* original of the file being processed
    content,      \* content of the file being processed
    step,         \* the position in Rules(script) of the substitution that comes next
    trace,        \* the substitutions applied to the current file so far
    status,       \* path -> "Pending", "Loaded", "Transformed", "Written", "Unchanged", "Errored"
    ret,          \* path -> what the per-file function returned: "True", "False", "none"
    errAt,        \* path -> where an exception was raised: "none", "read", "rule", "write"
    writes,       \* path -> number of times the file was written in this run
    disk0,        \* the tree when the current run started
    summary,      \* the counts of the closing line of main, once printed
    prev          \* what the previous run left: its order, its outcome, whether no file raised

vars == <<script, rootExists, disk, run, pc, outcome, order, nfiles, idx, fixed_count,
          original, content, step, trace, status, ret, errAt, writes,
          disk0, summary, prev>>

NoSummary == [corrected |-> -1, total |-> -1]
NoRun == [order |-> <<>>, outcome |-> "none", clean |-> FALSE]

Paths == DOMAIN disk
PerFile(v) == [f \in Paths |-> v]

Init ==
    /\ script \in Scripts
    /\ \/ rootExists = FALSE /\ disk = <<>>
       \/ rootExists = TRUE /\ disk \in {<<t>> : t \in Texts(script, MaxFrags)}
       \/ rootExists = TRUE /\ disk \in [1..NFiles -> Samples(script)]
    /\ run = "first"
    /\ pc = "main"
    /\ outcome = "running"
    /\ order = <<>>
    /\ nfiles = 0
    /\ idx = 1
    /\ fixed_count = 0
    /\ original = <<>>
    /\ content = <<>>
    /\ step = 1
    /\ trace = <<>>
    /\ status = PerFile("Pending")
    /\ ret = PerFile("none")
    /\ errAt = PerFile("none")
    /\ writes = PerFile(0)
    /\ disk0 = disk
    /\ summary = NoSummary
    /\ prev = NoRun

tree == <<script, rootExists>>
perFile == <<original, content, step, trace>>
records == <<status, ret, errAt, writes>>

(***************************************************************************)
(* main                                                                    *)
(***************************************************************************)
\* fix-repositories.py: if not repo_dir.exists(): print ERROR; return
RootNotFound ==
    /\ pc = "main"
    /\ script = "fix-repositories"
    /\ ~rootExists
    /\ pc' = "done"
    /\ outcome' = "error"
    /\ UNCHANGED <<tree, disk, run, order, nfiles, idx, fixed_count, perFile, records, disk0, summary, prev>>

\* files = list(dir.glob(..)); print the number found; start the loop.
\* glob of a directory that does not exist lists nothing.
Glob ==
    /\ pc = "main"
    /\ script = "fix-repositories" => rootExists
    /\ \E listing \in Listings(disk) :
          /\ order' = LoopOrder(script, listing)
          /\ nfiles' = Len(listing)
    /\ idx' = 1
    /\ fixed_count' = 0
    /\ pc' = "loop"
    /\ status' = PerFile("Pending")
    /\ ret' = PerFile("none")
    /\ errAt' = PerFile("none")
    /\ writes' = PerFile(0)
    /\ disk0' = disk
    /\ UNCHANGED <<tree, disk, run, outcome, perFile, summary, prev>>

\* an exception raised while the file order[idx] is processed: process_file
\* of the use-case scripts prints it and returns False, and the loop goes on;
\* fix_repository_file lets it propagate out of main
Raise(where) ==
    /\ errAt' = [errAt EXCEPT ![order[idx]] = where]
    /\ IF CatchesExceptions(script)
       THEN /\ status' = [status EXCEPT ![order[idx]] = "Errored"]
            /\ ret' = [ret EXCEPT ![order[idx]] = "False"]
            /\ idx' = idx + 1
            /\ pc' = "loop"
            /\ UNCHANGED outcome
       ELSE /\ pc' = "done"
            /\ outcome' = "aborted"
            /\ UNCHANGED <<status, ret, idx>>

\* with open(path, 'r') as f: content = f.read(); original = content
ReadFile ==
    /\ pc = "loop"
    /\ idx <= Len(order)
    /\ original' = disk[order[idx]]
    /\ content' = disk[order[idx]]
    /\ status' = [status EXCEPT ![order[idx]] = "Loaded"]
    /\ step' = 1
    /\ trace' = <<>>
    /\ pc' = "fix"
    /\ UNCHANGED <<tree, disk, run, outcome, order, nfiles, idx, fixed_count, ret, errAt,
                   writes, disk0, summary, prev>>

\* open(path, 'r') or f.read() raises: nothing was read
ReadFails ==
    /\ pc = "loop"
    /\ idx <= Len(order)
    /\ original' = <<>>
    /\ content' = <<>>
    /\ step' = 1
    /\ trace' = <<>>
    /\ Raise("read")
    /\ UNCHANGED <<tree, disk, run, order, nfiles, fixed_count, writes, disk0,
                   summary, prev>>

\* the comparison and the write placed after the first substitution
AllApplied_first(s, k) == k > 1

\* whether every substitution of every fix function has been applied
AllApplied(s, k) == k > Len(Rules(s))

\* content = re.sub(pattern, replacement, content); after the last
\* substitution of the last fix function the content is compared
ApplyRule ==
    /\ pc = "fix"
    /\ step <= Len(Rules(script))
    /\ LET rule == Rules(script)[step]
           out == apply_rule(rule, original, content)
       IN  /\ content' = out
           /\ trace' = Append(trace, [step |-> step, name |-> rule.name,
                                      input |-> content, output |-> out,
                                      matched |-> Matches(rule, content)])
    /\ step' = step + 1
    /\ IF AllApplied(script, step + 1)
       THEN /\ pc' = "compare"
            /\ status' = [status EXCEPT ![order[idx]] = "Transformed"]
       ELSE UNCHANGED <<pc, status>>
    /\ UNCHANGED <<tree, disk, run, outcome, order, nfiles, idx, fixed_count, original,
                   ret, errAt, writes, disk0, summary, prev>>

RuleRaises ==
    /\ pc = "fix"
    /\ step <= Len(Rules(script))
    /\ Raise("rule")
    /\ UNCHANGED <<tree, disk, run, order, nfiles, fixed_count, perFile, writes,
                   disk0, summary, prev>>

\* if content != original: write the file, return True; main counts it
WriteBack ==
    /\ pc = "compare"
    /\ Changed(content, original)
    /\ disk' = [disk EXCEPT ![order[idx]] = content]
    /\ writes' = [writes EXCEPT ![order[idx]] = @ + 1]
    /\ status' = [status EXCEPT ![order[idx]] = "Written"]
    /\ ret' = [ret EXCEPT ![order[idx]] = "True"]
    /\ fixed_count' = fixed_count + 1
    /\ idx' = idx + 1
    /\ pc' = "loop"
    /\ UNCHANGED <<tree, run, outcome, order, nfiles, perFile, errAt, disk0, summary, prev>>

\* open(path, 'w') or f.write raises: the file keeps its text when open
\* failed and is left truncated when the write failed after open
WriteFails ==
    /\ pc = "compare"
    /\ Changed(content, original)
    /\ \E left \in {disk[order[idx]], <<>>} : disk' = [disk EXCEPT ![order[idx]] = left]
    /\ Raise("write")
    /\ UNCHANGED <<tree, run, order, nfiles, fixed_count, perFile, writes, disk0,
                   summary, prev>>

\* else: return False
NoChanges ==
    /\ pc = "compare"
    /\ ~Changed(content, original)
    /\ status' = [status EXCEPT ![order[idx]] = "Unchanged"]
    /\ ret' = [ret EXCEPT ![order[idx]] = "False"]
    /\ idx' = idx + 1
    /\ pc' = "loop"
    /\ UNCHANGED <<tree, disk, run, outcome, order, nfiles, fixed_count, perFile, errAt,
                   writes, disk0, summary, prev>>

\* the loop is over: print fixed_count/len(files)
Summary ==
    /\ pc = "loop"
    /\ idx > Len(order)
    /\ summary' = [corrected |-> fixed_count, total |-> nfiles]
    /\ outcome' = "completed"
    /\ pc' = "done"
    /\ UNCHANGED <<tree, disk, run, order, nfiles, idx, fixed_count, perFile, records, disk0, prev>>

\* the script is invoked again on the tree the last run left; the new
\* process starts with fresh variables
RunAgain ==
    /\ pc = "done"
    /\ run = "first"
    /\ prev' = [order |-> order, outcome |-> outcome,
                 clean |-> \A f \in Paths : status[f] \in {"Written", "Unchanged"}]
    /\ run' = "second"
    /\ pc' = "main"
    /\ outcome' = "running"
    /\ summary' = NoSummary
    /\ order' = <<>>
    /\ nfiles' = 0
    /\ idx' = 1
    /\ fixed_count' = 0
    /\ original' = <<>>
    /\ content' = <<>>
    /\ step' = 1
    /\ trace' = <<>>
    /\ status' = PerFile("Pending")
    /\ ret' = PerFile("none")
    /\ errAt' = PerFile("none")
    /\ writes' = PerFile(0)
    /\ disk0' = disk
    /\ UNCHANGED <<tree, disk>>

Next ==
    \/ RootNotFound
    \/ Glob
    \/ ReadFile
    \/ ReadFails
    \/ ApplyRule
    \/ RuleRaises
    \/ WriteBack
    \/ WriteFails
    \/ NoChanges
    \/ Summary
    \/ RunAgain

Spec == Init /\ [][Next]_vars

(***************************************************************************)
(* Properties.                                                             *)
(***************************************************************************)
Terminal == {"Written", "Unchanged", "Errored"}

\* the rule a trace entry records
RuleOf(e) == Rules(script)[e.step]

\* the number of substitutions a script applies to a file
NumRules(s) == Len(Rules(s))

\* f is the file that content, original and trace belong to
Current(f) ==
    \/ pc \in {"fix", "compare"} /\ order[idx] = f
    \/ pc = "done" /\ outcome = "aborted" /\ order[idx] = f
    \/ pc = "loop" /\ idx > 1 /\ order[idx - 1] = f
    \/ pc = "done" /\ outcome = "completed" /\ idx > 1 /\ order[idx - 1] = f

\* f is the file whose processing just ended with a comparison: content and
\* original still hold its text
JustFinished(f) ==
    /\ pc = "loop" \/ (pc = "done" /\ outcome = "completed")
    /\ idx > 1
    /\ order[idx - 1] = f
    /\ status[f] \in {"Written", "Unchanged"}

\* the previous run completed and processed every file without an error,
\* and the current run has started
PrevRunClean ==
    /\ run = "second"
    /\ pc # "main"
    /\ prev.outcome = "completed"
    /\ prev.clean

\* C1: after a complete run of a script, a second run over the same tree
\* writes no file.
C1_SecondRunWritesNothing ==
    PrevRunClean => \A f \in Paths : status[f] # "Written" /\ writes[f] = 0

\* C2: an exception raised while a file is read, transformed or written is
\* caught and recorded for that file, the run is never aborted by it, and
\* at the end of the run every enumerated file is in a terminal state.
C2_ErrorsContained ==
    /\ outcome # "aborted"
    /\ \A f \in Paths : errAt[f] # "none" => status[f] = "Errored"
    /\ (pc = "done" /\ outcome = "completed") => \A f \in Paths : status[f] \in Terminal

\* C3: a file is written only after every substitution configured for it
\* has been applied without error; when a substitution raises, the file is
\* not written and its text on disk is the text it had before the run.
C3_NoPartialWrite ==
    \A f \in Paths :
        /\ writes[f] > 0 => errAt[f] # "rule"
        /\ (writes[f] > 0 /\ Current(f)) => Len(trace) = NumRules(script)
        /\ errAt[f] = "rule" => (writes[f] = 0 /\ disk[f] = disk0[f])

\* a substitution raised after earlier ones had already rewritten the text
C3_Witness ==
    \E f \in Paths :
        /\ errAt[f] = "rule"
        /\ Current(f)
        /\ Len(trace) > 0
        /\ original = disk0[f]
        /\ content # original
        /\ disk[f] = original

\* C4: a file is written if and only if its content after all substitutions
\* differs from the content read; when they are equal (in particular when
\* no pattern occurs in the file) the file is not written, its text on disk
\* is untouched and the per-file function returns False.
C4_WriteIffChanged ==
    \A f \in Paths :
        /\ status[f] = "Unchanged" => (writes[f] = 0 /\ disk[f] = disk0[f] /\ ret[f] = "False")
        /\ status[f] = "Written" => (writes[f] = 1 /\ ret[f] = "True")
        /\ JustFinished(f) =>
              /\ writes[f] = 1 <=> content # original
              /\ status[f] = "Written" => disk[f] = content
              /\ (\A k \in 1..Len(trace) : ~trace[k].matched) => status[f] = "Unchanged"

\* one file without any pattern was left alone and another one was written
C4_Witness ==
    \E f, g \in Paths :
        /\ JustFinished(f)
        /\ status[f] = "Unchanged"
        /\ original # <<>>
        /\ \A k \in 1..Len(trace) : ~trace[k].matched
        /\ status[g] = "Written"
        /\ disk[g] # disk0[g]

\* C5: when the root directory does not exist the run ends with an error
\* outcome; it never completes as a normal run that found zero files.
C5_MissingRootFailsFast ==
    (pc = "done" /\ ~rootExists) => outcome = "error"

\* the call site every(skill => barber.specialties.some(..)) of the old API
OldCallSite(text) ==
    \E i \in 1..Len(text) :
        MatchAt(<<One("service.requiredSkills.every(skill =>"), Star(Space),
                  One("barber.specialties.some(specialty => specialty.value === skill)"),
                  One(")")>>, text, i, 1) # <<>>

\* C6: the substitutions are applied in their declared order, each to the
\* text the earlier ones produced, none skipped; a file with a call site
\* that the second substitution of fix_barber_specialties matches only
\* after the first one has rewritten it is fully migrated in one run.
C6_DeclaredOrder ==
    /\ \A k \in 1..Len(trace) :
          trace[k].input = (IF k = 1 THEN original ELSE trace[k - 1].output)
    /\ content = (IF trace = <<>> THEN original ELSE trace[Len(trace)].output)
    /\ \A k \in 1..Len(trace) : trace[k].step = k
    /\ pc = "compare" => Len(trace) = NumRules(script)
    /\ (pc = "compare" /\ script = "fix-usecases-phase2" /\ OldCallSite(original)) =>
          /\ ~Matches(p2_required_skills_every, original)
          /\ \E j, k \in 1..Len(trace) :
                /\ j < k
                /\ trace[j].name = "p2_specialties_some" /\ trace[j].matched
                /\ trace[k].name = "p2_required_skills_every" /\ trace[k].matched
          /\ ~Matches(p2_specialties_some, content)
          /\ Matches(p2_required_skills_every, content)

\* the old call site went through both substitutions
C6_Witness ==
    /\ pc = "compare"
    /\ script = "fix-usecases-phase2"
    /\ OldCallSite(original)
    /\ Matches(p2_required_skills_every, content)

\* C7: the closing line of a run separates the files that were left
\* unchanged from the files whose processing raised an exception: the files
\* it does not count as corrected are exactly the unchanged ones.
C7_ReportCounts ==
    (pc = "done" /\ outcome = "completed") =>
        summary.total - summary.corrected = Cardinality({f \in Paths : status[f] = "Unchanged"})

C9_LexicographicOrder ==
    /\ \A i, j \in 1..Len(order) : i < j => order[i] < order[j]
    /\ (run = "second" /\ pc # "main" /\ prev.outcome = "completed" /\ outcome # "error")
          => order = prev.order

\* C10: the replacement text a substitution produces for a match contains
\* no match of that substitution's own pattern.
C10_ReplacementNeverRematches ==
    \A k \in 1..Len(trace) :
        LET rule == RuleOf(trace[k])
            reps == ReplacementsFrom(rule, trace[k].input, 1)
        IN  GuardHolds(rule, trace[k].input) =>
                \A j \in 1..Len(reps) : ~Matches(rule, reps[j])

====
